---- MODULE Spec2Model ----
(***************************************************************************)
(* Model of server.py: a click-tracking redirect server backed by one      *)
(* SQLite table `clicks` with a unique index on                            *)
(* (session_num, post_num, tg_id).                                         *)
(*                                                                         *)
(* Strings are TLA+ strings; the string functions of Python that the code  *)
(* uses (strip, replace, lower, split, int, str, urlparse, strftime) are   *)
(* computed character by character.  The alphabet of the inputs is: ASCII  *)
(* letters and digits, the blank " " (the only whitespace), and the        *)
(* punctuation  @ : / . ? # ; + -                                          *)
(***************************************************************************)
EXTENDS Integers, Sequences, FiniteSets, TLC

VARIABLES clicks, nextId, now, session_links_ref, user_cache_ref,
          pc, req, loc, out

vars == <<clicks, nextId, now, session_links_ref, user_cache_ref,
          pc, req, loc, out>>

(***************************************************************************)
(* Python string primitives                                                *)
(***************************************************************************)

\* s[i-1] of Python, 1-based here
Ch(s, i) == SubSeq(s, i, i)

\* sub in s
Contains(s, sub) ==
    \E i \in 1..(Len(s) - Len(sub) + 1) : SubSeq(s, i, i + Len(sub) - 1) = sub

\* s.find(c, from): 1-based index of the first c at or after `from`, 0 if none
RECURSIVE Find(_, _, _)
Find(s, c, from) ==
    IF from > Len(s) THEN 0
    ELSE IF Ch(s, from) = c THEN from ELSE Find(s, c, from + 1)

\* c in s, for a one-character c
HasChar(s, c) == Find(s, c, 1) > 0

\* the last c at or before `upto`, 0 if none
RECURSIVE FindBack(_, _, _)
FindBack(s, c, upto) ==
    IF upto < 1 THEN 0
    ELSE IF Ch(s, upto) = c THEN upto ELSE FindBack(s, c, upto - 1)

\* s.rfind(c): 1-based index of the last c, 0 if none
RFind(s, c) == FindBack(s, c, Len(s))

\* the characters of s
CharSet(s) == {Ch(s, i) : i \in 1..Len(s)}

RECURSIVE LStrip(_)
LStrip(s) ==
    IF s = "" THEN ""
    ELSE IF Head(s) = " " THEN LStrip(Tail(s)) ELSE s

RECURSIVE RStrip(_)
RStrip(s) ==
    IF s = "" THEN ""
    ELSE IF Ch(s, Len(s)) = " " THEN RStrip(SubSeq(s, 1, Len(s) - 1)) ELSE s

\* s.strip()
Strip(s) == RStrip(LStrip(s))

\* mutant: the replace("@", "") left out
KeepAt(s) == s

\* s.replace("@", "")
RECURSIVE RemoveAt(_)
RemoveAt(s) ==
    IF s = "" THEN ""
    ELSE IF Head(s) = "@" THEN RemoveAt(Tail(s))
         ELSE Head(s) \o RemoveAt(Tail(s))

Upper == "ABCDEFGHIJKLMNOPQRSTUVWXYZ"
LowerLetters == "abcdefghijklmnopqrstuvwxyz"
Digits == "0123456789"

\* the lower-case letter of each upper-case letter
LowerOf == [c \in CharSet(Upper) |-> Ch(LowerLetters, Find(Upper, c, 1))]

LowerCh(c) == IF c \in DOMAIN LowerOf THEN LowerOf[c] ELSE c

\* s.lower()
RECURSIVE Lower(_)
Lower(s) ==
    IF s = "" THEN "" ELSE LowerCh(Head(s)) \o Lower(Tail(s))

\* s.split("/"): the sequence of the pieces between the slashes
RECURSIVE Split(_)
Split(s) ==
    LET i == Find(s, "/", 1)
    IN  IF i = 0 THEN <<s>>
        ELSE <<SubSeq(s, 1, i - 1)>> \o Split(SubSeq(s, i + 1, Len(s)))

\* [p for p in parts if p]
RECURSIVE NonEmpty(_)
NonEmpty(parts) ==
    IF parts = <<>> THEN <<>>
    ELSE IF Head(parts) = "" THEN NonEmpty(Tail(parts))
         ELSE <<Head(parts)>> \o NonEmpty(Tail(parts))

DigitSet == CharSet(Digits)
IsDigit(c) == c \in DigitSet
DigitVal(c) == Find(Digits, c, 1) - 1

RECURSIVE DigitsVal(_)
DigitsVal(s) ==
    IF s = "" THEN 0
    ELSE 10 * DigitsVal(SubSeq(s, 1, Len(s) - 1)) + DigitVal(Ch(s, Len(s)))

\* int(s) for a str s: blanks around, an optional sign, then at least one
\* digit; anything else raises ValueError (ok = FALSE)
ParseInt(s) ==
    LET t    == Strip(s)
        sgn  == t # "" /\ Head(t) \in {"+", "-"}
        body == IF sgn THEN Tail(t) ELSE t
        good == body # "" /\ \A i \in 1..Len(body) : IsDigit(Ch(body, i))
    IN  IF ~good THEN [ok |-> FALSE, val |-> 0]
        ELSE [ok  |-> TRUE,
              val |-> IF sgn /\ Head(t) = "-" THEN 0 - DigitsVal(body)
                      ELSE DigitsVal(body)]

RECURSIVE NatToStr(_)
NatToStr(n) ==
    IF n < 10 THEN Ch(Digits, n + 1)
    ELSE NatToStr(n \div 10) \o Ch(Digits, (n % 10) + 1)

\* str(n), as in f"{n}"
IntToStr(n) == IF n < 0 THEN "-" \o NatToStr(0 - n) ELSE NatToStr(n)

\* n formatted as %02d
Pad2(n) == Ch(Digits, (n \div 10) + 1) \o Ch(Digits, (n % 10) + 1)

(***************************************************************************)
(* urllib.parse.urlparse, as far as _extract_x_username reads its result   *)
(* (netloc and path).  Within the alphabet urlparse raises no exception.   *)
(***************************************************************************)

SchemeChars == CharSet(LowerLetters \o Upper \o Digits \o "+-.")
Letters == CharSet(LowerLetters \o Upper)
UsesParams == {"", "ftp", "hdl", "prospero", "http", "imap", "https", "shttp",
               "rtsp", "rtsps", "rtspu", "sip", "sips", "mms", "sftp", "tel"}

\* urlsplit: the scheme, when the text before the first ":" is one
SplitScheme(url) ==
    LET i  == Find(url, ":", 1)
        ok == /\ i > 1
              /\ Ch(url, 1) \in Letters
              /\ \A k \in 1..(i - 1) : Ch(url, k) \in SchemeChars
    IN  IF ok THEN [scheme |-> Lower(SubSeq(url, 1, i - 1)),
                    rest   |-> SubSeq(url, i + 1, Len(url))]
        ELSE [scheme |-> "", rest |-> url]

\* _splitnetloc(url, 2): the text after "//" up to the first of / ? #
SplitNetloc(url) ==
    LET ends  == {Find(url, "/", 3), Find(url, "?", 3), Find(url, "#", 3)} \ {0}
        delim == IF ends = {} THEN Len(url) + 1
                 ELSE CHOOSE i \in ends : \A j \in ends : i <= j
    IN  [netloc |-> SubSeq(url, 3, delim - 1),
         rest   |-> SubSeq(url, delim, Len(url))]

\* url.split(c, 1)[0] when c is in url, else url
Before(url, c) ==
    LET i == Find(url, c, 1)
    IN  IF i = 0 THEN url ELSE SubSeq(url, 1, i - 1)

\* _splitparams(url)[0]
SplitParams(url) ==
    LET j == RFind(url, "/")
        i == IF j > 0 THEN Find(url, ";", j) ELSE Find(url, ";", 1)
    IN  IF i = 0 THEN url ELSE SubSeq(url, 1, i - 1)

UrlParse(url0) ==
    LET url == LStrip(url0)
        sc  == SplitScheme(url)
        nl  == IF Len(sc.rest) >= 2 /\ SubSeq(sc.rest, 1, 2) = "//"
               THEN SplitNetloc(sc.rest)
               ELSE [netloc |-> "", rest |-> sc.rest]
        p1  == Before(Before(nl.rest, "#"), "?")
        p2  == IF sc.scheme \in UsesParams /\ HasChar(p1, ";")
               THEN SplitParams(p1) ELSE p1
    IN  [scheme |-> sc.scheme, netloc |-> nl.netloc, path |-> p2]

\* _extract_x_username(url); urlparse raises on no text of the inputs
\* (a netloc with an unmatched "[" or "]"), so the except branch of lines
\* 76-77 is not taken
extract_x_username(url) ==
    IF url = "" THEN "Unknown"
    ELSE LET parsed     == UrlParse(url)
             path_parts == NonEmpty(Split(parsed.path))
         IN  IF ~Contains(Lower(parsed.netloc), "x.com") THEN "Unknown"
             ELSE IF path_parts = <<>> THEN "Unknown"
             ELSE RemoveAt(path_parts[1])

(***************************************************************************)
(* datetime.now().strftime("%Y-%m-%d %H:%M:%S").  The clock `now` counts   *)
(* the seconds of one day of the local clock; the date is that of the day. *)
(***************************************************************************)

Today == "2024-01-01"

Strftime(t) ==
    Today \o " " \o Pad2((t \div 3600) % 24) \o ":" \o Pad2((t \div 60) % 60)
          \o ":" \o Pad2(t % 60)

\* SQLite's BINARY collation on the characters of a timestamp
Collation == " -0123456789:"
Ord(c) == Find(Collation, c, 1)

RECURSIVE TextLess(_, _)
TextLess(a, b) ==
    IF b = "" THEN FALSE
    ELSE IF a = "" THEN TRUE
    ELSE IF Head(a) = Head(b) THEN TextLess(Tail(a), Tail(b))
    ELSE Ord(Head(a)) < Ord(Head(b))

TextLeq(a, b) == a = b \/ TextLess(a, b)

(***************************************************************************)
(* Bounds of the model and the inputs it draws                             *)
(***************************************************************************)

\* the worker threads that serve /visit concurrently
Workers == {1, 2}

\* no request is accepted once this many rows have been inserted
MaxId == 2

\* the clock starts at 00:59:59 and advances by at most MaxTicks seconds
ClockStart == 3599
MaxTicks == 1

\* the session numbers of the /api requests
Sessions == {1, 2}

(***************************************************************************)
(* The request parameters and the two in-memory maps.                      *)
(* A request's query string `args` is a function from the parameter names  *)
(* it carries to their text; a link's metadata is a function from the keys *)
(* it carries to their values; the empty function stands for both None and *)
(* the empty dict, which the code's truth tests do not tell apart.         *)
(***************************************************************************)

\* d.get(k) or dflt, for a value that is absent
Get(d, k, dflt) == IF k \in DOMAIN d THEN d[k] ELSE dflt

Truthy(d) == DOMAIN d # {}

None == <<>>

\* mutant: int(request.args[k]), an omitted parameter is an error
ArgIntRequired(args, k) ==
    IF k \in DOMAIN args THEN ParseInt(args[k]) ELSE [ok |-> FALSE, val |-> 0]

\* int(request.args.get(k, 0))
ArgInt(args, k) ==
    IF k \in DOMAIN args THEN ParseInt(args[k]) ELSE [ok |-> TRUE, val |-> 0]

\* lines 114-119: the three conversions succeed
WellFormed(args) ==
    ArgInt(args, "uid").ok /\ ArgInt(args, "post").ok /\ ArgInt(args, "sess").ok

\* session_links_ref.get(post_num)
LinkInfo(links, post_num) == Get(links, post_num, None)

FallbackUrl == "https://x.com"

\* mutant: the link metadata consulted before the target parameter
ResolveTargetUrlLinkFirst(args, link_info) ==
    LET t1 == IF Truthy(link_info) THEN Strip(Get(link_info, "url", ""))
              ELSE ""
        t2 == IF t1 = "" THEN Strip(Get(args, "target", "")) ELSE t1
    IN  IF t2 = "" THEN "https://x.com" ELSE t2

\* mutant: without a target, the profile of the xuser parameter comes first
ResolveTargetUrlByXuser(args, link_info) ==
    LET t1 == Strip(Get(args, "target", ""))
        x  == Strip(RemoveAt(Get(args, "xuser", "")))
        t2 == IF t1 = "" /\ x # "" THEN "https://x.com/" \o x ELSE t1
        t3 == IF t2 = "" /\ Truthy(link_info)
              THEN Strip(Get(link_info, "url", "")) ELSE t2
    IN  IF t3 = "" THEN FallbackUrl ELSE t3

\* lines 123-127
ResolveTargetUrl(args, link_info) ==
    LET t1 == Strip(Get(args, "target", ""))
        t2 == IF t1 = "" /\ Truthy(link_info)
              THEN Strip(Get(link_info, "url", "")) ELSE t1
    IN  IF t2 = "" THEN FallbackUrl ELSE t2

\* mutant: the variant of visit() without self-click suppression
NeverSelfClick(uid, link_info) == FALSE

\* mutant: a visit to a post without link metadata is not logged either
SelfClickOrNoLink(uid, link_info) ==
    \/ ~Truthy(link_info)
    \/ /\ "poster_id" \in DOMAIN link_info
       /\ uid = link_info["poster_id"]

\* line 130
IsSelfClick(uid, link_info) ==
    /\ Truthy(link_info)
    /\ "poster_id" \in DOMAIN link_info
    /\ uid = link_info["poster_id"]

\* mutant: the cache consulted before the uname parameter
ResolveTgUsernameCacheFirst(args, uid, cache) ==
    IF uid \in DOMAIN cache /\ Get(cache[uid], "username", "") # ""
    THEN "@" \o cache[uid]["username"]
    ELSE IF uid \in DOMAIN cache
         THEN Get(cache[uid], "full_name", "User " \o IntToStr(uid))
    ELSE IF Strip(Get(args, "uname", "")) # ""
         THEN Strip(Get(args, "uname", ""))
    ELSE "User " \o IntToStr(uid)

\* lines 134-142; a cached telegram.User is an object, hence always true
ResolveTgUsername(args, uid, cache) ==
    LET t1 == Strip(Get(args, "uname", ""))
    IN  IF t1 # "" THEN t1
        ELSE IF uid \in DOMAIN cache /\ Get(cache[uid], "username", "") # ""
             THEN "@" \o cache[uid]["username"]
        ELSE IF uid \in DOMAIN cache
             THEN Get(cache[uid], "full_name", "User " \o IntToStr(uid))
        ELSE "User " \o IntToStr(uid)

\* mutant: the link metadata consulted before the xuser parameter
ResolveXUsernameLinkFirst(args, link_info, target_url) ==
    LET x1 == IF Truthy(link_info)
              THEN Strip(RemoveAt(Get(link_info, "x_username", ""))) ELSE ""
        x2 == IF x1 = "" THEN Strip(RemoveAt(Get(args, "xuser", ""))) ELSE x1
    IN  IF x2 = "" THEN extract_x_username(target_url) ELSE x2

\* lines 144-148
ResolveXUsername(args, link_info, target_url) ==
    LET x1 == Strip(RemoveAt(Get(args, "xuser", "")))
        x2 == IF x1 = "" /\ Truthy(link_info)
              THEN Strip(RemoveAt(Get(link_info, "x_username", ""))) ELSE x1
    IN  IF x2 = "" THEN extract_x_username(target_url) ELSE x2

\* line 155
StoredXUsername(x_username) ==
    IF x_username # "Unknown" THEN "@" \o x_username ELSE "Unknown"

\* the parameters save_click is called with (lines 150-157) and the
\* timestamp it takes (line 96)
ResolvedRow(args, links, cache, t) ==
    LET uid        == ArgInt(args, "uid").val
        post_num   == ArgInt(args, "post").val
        link_info  == LinkInfo(links, post_num)
        target_url == ResolveTargetUrl(args, link_info)
    IN  [session_num |-> ArgInt(args, "sess").val,
         post_num    |-> post_num,
         tg_id       |-> uid,
         tg_username |-> ResolveTgUsername(args, uid, cache),
         x_username  |-> StoredXUsername(
                            ResolveXUsername(args, link_info, target_url)),
         x_link      |-> target_url,
         clicked_at  |-> Strftime(t)]

Key(r) == <<r.session_num, r.post_num, r.tg_id>>

NoRow == [session_num |-> 0, post_num |-> 0, tg_id |-> 0, tg_username |-> "",
          x_username |-> "", x_link |-> "", clicked_at |-> ""]

\* the responses of visit(): redirect(url), ("Bad request", 400), and the
\* 500 Flask gives for an exception the handler lets through
Redirect(url) == [status |-> 302, location |-> url]
BadRequest == [status |-> 400, location |-> ""]
ServerError == [status |-> 500, location |-> ""]

(***************************************************************************)
(* The inputs of the specification Spec                                    *)
(***************************************************************************)

\* what the bot has injected into session_links_ref and user_cache_ref
\* before the server runs: a link and a user (SpecResolve below also starts
\* from the empty maps of the server running alone)
Configs ==
    { [links |-> (3 :> [url |-> "https://x.com/dave", poster_id |-> 7,
                        x_username |-> "@dave"]),
       cache |-> (555 :> [username |-> "al", full_name |-> "Al A"])] }

Requests ==
    { [uid |-> "555", post |-> "3", sess |-> "1",
       target |-> "https://x.com/alice"],
      [uid |-> "555", post |-> "3", sess |-> "1", uname |-> "bob",
       xuser |-> "@carol"],
      [uid |-> "7", post |-> "3", sess |-> "1"],
      [uid |-> "abc", post |-> "3", sess |-> "1"],
      [sess |-> "2", target |-> " "],
      [uid |-> " 08 ", sess |-> "1"] }

(***************************************************************************)
(* State                                                                   *)
(*   clicks   the rows of table clicks (id is the AUTOINCREMENT key)       *)
(*   nextId   the id the next INSERT takes (sqlite_sequence.seq + 1): an   *)
(*            AUTOINCREMENT id is used up by an ignored INSERT too         *)
(*   now      the local clock, in seconds                                  *)
(*   pc[w]    "idle", or "save" when worker w is inside save_click, about  *)
(*            to execute its INSERT                                        *)
(*   req[w]   the query string of the /visit worker w is handling          *)
(*   loc[w]   the row worker w passes to its INSERT                        *)
(*   out      the response sent by the last step, when that step ended a   *)
(*            request, with the request it answers                         *)
(***************************************************************************)

NoOut == [op |-> "none"]

VisitOut(args, row, response) ==
    [op |-> "visit", args |-> args, row |-> row,
     status |-> response.status, location |-> response.location]

\* init_db() on a fresh database, the module's globals (lines 23-24, 62)
InitWith(configs) ==
    /\ clicks = {}
    /\ nextId = 1
    /\ now = ClockStart
    /\ \E c \in configs : /\ session_links_ref = c.links
                          /\ user_cache_ref = c.cache
    /\ pc = [w \in Workers |-> "idle"]
    /\ req = [w \in Workers |-> None]
    /\ loc = [w \in Workers |-> NoRow]
    /\ out = NoOut

Init == InitWith(Configs)

\* the local clock advances
Tick ==
    /\ now < ClockStart + MaxTicks
    /\ now' = now + 1
    /\ out' = NoOut
    /\ UNCHANGED <<clicks, nextId, session_links_ref, user_cache_ref,
                   pc, req, loc>>

\* visit(), lines 114-157, up to the point where save_click has built the
\* parameters of its INSERT (lines 82-97): worker w either answers at once
\* (400, or the redirect of a self-click) or goes on to the INSERT
visit(w, args) ==
    /\ pc[w] = "idle"
    /\ nextId <= MaxId
    /\ IF ~WellFormed(args)
       THEN /\ out' = VisitOut(args, NoRow, BadRequest)
            /\ UNCHANGED <<pc, req, loc>>
       ELSE LET uid        == ArgInt(args, "uid").val
                link_info  == LinkInfo(session_links_ref,
                                       ArgInt(args, "post").val)
                target_url == ResolveTargetUrl(args, link_info)
            IN  IF IsSelfClick(uid, link_info)
                THEN /\ out' = VisitOut(args, NoRow, Redirect(target_url))
                     /\ UNCHANGED <<pc, req, loc>>
                ELSE /\ req' = [req EXCEPT ![w] = args]
                     /\ loc' = [loc EXCEPT ![w] =
                                  ResolvedRow(args, session_links_ref,
                                              user_cache_ref, now)]
                     /\ pc' = [pc EXCEPT ![w] = "save"]
                     /\ out' = NoOut
    /\ UNCHANGED <<clicks, nextId, now, session_links_ref, user_cache_ref>>

\* mutant: the INSERT with session_num and post_num in each other's column
NewRowSwapped(id, r) ==
    [id |-> id, session_num |-> r.post_num, post_num |-> r.session_num,
     tg_id |-> r.tg_id, tg_username |-> r.tg_username,
     x_username |-> r.x_username, x_link |-> r.x_link,
     clicked_at |-> r.clicked_at]

\* the row the INSERT adds for the parameters r
NewRow(id, r) ==
    [id |-> id, session_num |-> r.session_num, post_num |-> r.post_num,
     tg_id |-> r.tg_id, tg_username |-> r.tg_username,
     x_username |-> r.x_username, x_link |-> r.x_link,
     clicked_at |-> r.clicked_at]

\* mutant: a plain INSERT into a table without the unique index
InsertNoIndex(rows, id, r) == rows \cup {NewRow(id, r)}

\* mutant: INSERT OR REPLACE, the later call overwrites the row
InsertOrReplace(rows, id, r) ==
    {x \in rows : Key(x) # Key(r)} \cup {NewRow(id, r)}

\* INSERT OR IGNORE INTO clicks ... under the unique index idx_click_unique
InsertOrIgnore(rows, id, r) ==
    IF \E x \in rows : Key(x) = Key(r)
    THEN rows
    ELSE rows \cup {NewRow(id, r)}

\* save_click(), lines 83-100, then line 158 of visit(): the INSERT and its
\* commit are one atomic step of SQLite
save_click(w) ==
    /\ pc[w] = "save"
    /\ clicks' = InsertOrIgnore(clicks, nextId, loc[w])
    /\ nextId' = nextId + 1
    /\ out' = VisitOut(req[w], loc[w], Redirect(loc[w].x_link))
    /\ pc' = [pc EXCEPT ![w] = "idle"]
    /\ req' = [req EXCEPT ![w] = None]
    /\ loc' = [loc EXCEPT ![w] = NoRow]
    /\ UNCHANGED <<now, session_links_ref, user_cache_ref>>

\* save_click() raises (sqlite3.OperationalError: database is locked, disk
\* full, ...): nothing in visit() catches it, the request ends in a 500
save_click_fails(w) ==
    /\ pc[w] = "save"
    /\ out' = VisitOut(req[w], loc[w], ServerError)
    /\ pc' = [pc EXCEPT ![w] = "idle"]
    /\ req' = [req EXCEPT ![w] = None]
    /\ loc' = [loc EXCEPT ![w] = NoRow]
    /\ UNCHANGED <<clicks, nextId, now, session_links_ref, user_cache_ref>>

\* health(), lines 161-163
health ==
    /\ out' = [op |-> "health", status |-> 200, body |-> [status |-> "ok"]]
    /\ UNCHANGED <<clicks, nextId, now, session_links_ref, user_cache_ref,
                   pc, req, loc>>

\* one dict of the list get_session_clicks returns (lines 180-190)
ClickDict(row) ==
    [post_num |-> row.post_num, tg_id |-> row.tg_id,
     tg_username |-> row.tg_username, x_username |-> row.x_username,
     x_link |-> row.x_link, clicked_at |-> row.clicked_at]

\* mutant: the SELECT without its ORDER BY clause
SelectUnordered(rows, session_num) ==
    LET R == {r \in rows : r.session_num = session_num}
        n == Cardinality(R)
    IN  {f \in [1..n -> R] : \A i, j \in 1..n : i # j => f[i] # f[j]}

\* SELECT ... WHERE session_num=? ORDER BY clicked_at: every order of the
\* session's rows that ascends by clicked_at (SQL leaves the order of rows
\* with equal clicked_at open)
SelectBySession(rows, session_num) ==
    LET R == {r \in rows : r.session_num = session_num}
        n == Cardinality(R)
    IN  {f \in [1..n -> R] :
            /\ \A i, j \in 1..n : i # j => f[i] # f[j]
            /\ \A i, j \in 1..n :
                   i < j => TextLeq(f[i].clicked_at, f[j].clicked_at)}

\* get_session_clicks(session_num), lines 166-191
get_session_clicks(session_num) ==
    /\ \E rows \in SelectBySession(clicks, session_num) :
          out' = [op |-> "clicks", status |-> 200, session |-> session_num,
                  clicks |-> [i \in 1..Len(rows) |-> ClickDict(rows[i])]]
    /\ UNCHANGED <<clicks, nextId, now, session_links_ref, user_cache_ref,
                   pc, req, loc>>

\* the SELECT of line 169 raises (sqlite3.OperationalError: database is
\* locked, after the 5 s of the default timeout): nothing catches it, the
\* request ends in the 500 of Flask, which tells nothing of the request
get_session_clicks_fails(session_num) ==
    /\ out' = [op |-> "clicks", status |-> 500]
    /\ UNCHANGED <<clicks, nextId, now, session_links_ref, user_cache_ref,
                   pc, req, loc>>

\* mutant: DELETE FROM clicks, without the WHERE clause
DeleteAll(rows, session_num) == {}

\* mutant: DELETE FROM clicks WHERE session_num<=?
DeleteUpTo(rows, session_num) ==
    {r \in rows : r.session_num > session_num}

\* mutant: the DELETE without its commit, the rows stay
DeleteNothing(rows, session_num) == rows

\* DELETE FROM clicks WHERE session_num=?
DeleteBySession(rows, session_num) ==
    {r \in rows : r.session_num # session_num}

\* mutant: the answer without the session it cleared
ClearResponseNoSession(session_num) == [ok |-> TRUE, session |-> 0]

\* the JSON of line 200
ClearResponse(session_num) == [ok |-> TRUE, session |-> session_num]

\* clear_session_clicks(session_num), lines 194-200
clear_session_clicks(session_num) ==
    /\ clicks' = DeleteBySession(clicks, session_num)
    /\ out' = [op |-> "clear", status |-> 200,
               body |-> ClearResponse(session_num)]
    /\ UNCHANGED <<nextId, now, session_links_ref, user_cache_ref,
                   pc, req, loc>>

\* the DELETE of line 197 raises (sqlite3.OperationalError: database is
\* locked): nothing catches it, the request ends in a 500 and the rows stay
clear_session_clicks_fails(session_num) ==
    /\ out' = [op |-> "clear", status |-> 500]
    /\ UNCHANGED <<clicks, nextId, now, session_links_ref, user_cache_ref,
                   pc, req, loc>>

Next ==
    \/ Tick
    \/ \E w \in Workers, args \in Requests : visit(w, args)
    \/ \E w \in Workers : save_click(w)
    \/ \E w \in Workers : save_click_fails(w)
    \/ health
    \/ \E s \in Sessions : get_session_clicks(s)
    \/ \E s \in Sessions : get_session_clicks_fails(s)
    \/ \E s \in Sessions : clear_session_clicks(s)
    \/ \E s \in Sessions : clear_session_clicks_fails(s)

Spec == Init /\ [][Next]_vars

(***************************************************************************)
(* SpecResolve: one /visit on an empty table, its parameters and the two   *)
(* maps drawn from wider sets (blank and padded texts, repeated "@",       *)
(* omitted and malformed numbers, hosts that are not x.com)                *)
(***************************************************************************)

WideConfigs ==
    { [links |-> <<>>, cache |-> <<>>],
      [links |-> (3 :> [url |-> "https://x.com/dave", poster_id |-> 7,
                        x_username |-> "@dave"]),
       cache |-> (555 :> [username |-> "al", full_name |-> "Al A"])],
      [links |-> (3 :> [url |-> " ", poster_id |-> 555]),
       cache |-> (555 :> [full_name |-> "Al A"])],
      [links |-> (0 :> [url |-> " https://e.org/z ", poster_id |-> 7,
                        x_username |-> " @@eve "]),
       cache |-> (7 :> [username |-> "", full_name |-> "Bo"])
                 @@ (0 :> [username |-> "anon", full_name |-> "A"])] }

\* each parameter: <<>> when the request omits it, else <<its text>>
WideUid == {<<>>, <<"555">>, <<" 07 ">>, <<"x">>, <<"">>}
WidePost == {<<>>, <<"3">>, <<"p">>}
WideSess == {<<>>, <<"1">>}
WideTarget == {<<>>, <<" ">>, <<"https://x.com/alice">>,
               <<" https://X.com/@@bob/s ">>, <<"https://netflix.com/al">>,
               <<"x.com/al">>, <<"a">>}
WideUname == {<<>>, <<" ">>, <<" bob ">>}
WideXuser == {<<>>, <<"@">>, <<" @@carol">>, <<"Unknown">>, <<"a@b">>}

MkArgs(u, p, s, t, n, x) ==
    LET o == [uid |-> u, post |-> p, sess |-> s, target |-> t, uname |-> n,
              xuser |-> x]
    IN  [k \in {k \in DOMAIN o : o[k] # <<>>} |-> o[k][1]]

WideRequests ==
    {MkArgs(u, p, s, t, n, x) :
        u \in WideUid, p \in WidePost, s \in WideSess, t \in WideTarget,
        n \in WideUname, x \in WideXuser}

InitResolve == InitWith(WideConfigs)

NextResolve ==
    \/ \E args \in WideRequests : clicks = {} /\ out = NoOut /\ visit(1, args)
    \/ save_click(1)
    \/ save_click_fails(1)

SpecResolve == InitResolve /\ [][NextResolve]_vars

(***************************************************************************)
(* SpecPurge: the server with every /visit for the one triple (1, 3, 555), *)
(* so that a row with an id above 1 is a row of a triple recorded and      *)
(* purged before                                                           *)
(***************************************************************************)

PurgeRequests ==
    { [uid |-> "555", post |-> "3", sess |-> "1",
       target |-> "https://x.com/alice"],
      [uid |-> "555", post |-> "3", sess |-> "1", uname |-> "bob",
       xuser |-> "@carol"] }

InitPurge == InitWith(Configs)

NextPurge ==
    \/ Tick
    \/ \E w \in Workers, args \in PurgeRequests : visit(w, args)
    \/ \E w \in Workers : save_click(w)
    \/ \E w \in Workers : save_click_fails(w)
    \/ \E s \in Sessions : get_session_clicks(s)
    \/ \E s \in Sessions : get_session_clicks_fails(s)
    \/ \E s \in Sessions : clear_session_clicks(s)
    \/ \E s \in Sessions : clear_session_clicks_fails(s)

SpecPurge == InitPurge /\ [][NextPurge]_vars

(***************************************************************************)
(* Claims                                                                  *)
(***************************************************************************)

\* out answers a /visit
IsVisitOut(o) == o.op = "visit"

\* out answers a /visit that went through save_click
IsSaveOut(o) == o.op = "visit" /\ o.row # NoRow

RowsOfKey(rows, k) == {r \in rows : Key(r) = k}

\* out answers a purge that was carried out
IsClearOut(o) == o.op = "clear" /\ o.status = 200

\* out answers a GET /api/clicks whose SELECT was carried out
IsClicksOut(o) == o.op = "clicks" /\ o.status = 200

\* C1: in every reachable state, whatever the interleaving of /visit and
\* /api/clear requests (concurrent duplicates of one triple included), the
\* table holds at most one row per (session_num, post_num, tg_id)
C1_AtMostOneRowPerTriple ==
    \A r1, r2 \in clicks : Key(r1) = Key(r2) => r1 = r2

\* C1 witness: two overlapping visits of one triple: one has just been
\* answered after its INSERT stored the row, the other is still inside
\* save_click with the same triple and another payload
C1_Witness ==
    /\ IsSaveOut(out) /\ out.status = 302
    /\ \E w \in Workers :
          /\ pc[w] = "save"
          /\ Key(loc[w]) = Key(out.row)
          /\ loc[w].tg_username # out.row.tg_username
          /\ RowsOfKey(clicks, Key(loc[w])) # {}

\* C2: a save_click for a triple that is already stored leaves the table as
\* it is (one row of that triple, with the tg_username, x_username, x_link
\* and clicked_at of the first call); a save_click for a triple that is not
\* stored adds exactly one row, with the values it was called with
C2_IdempotentRecording ==
    [][\A w \in Workers :
          (pc[w] = "save" /\ pc'[w] = "idle" /\ out'.status = 302) =>
             LET k == Key(loc[w])
             IN  /\ Cardinality(RowsOfKey(clicks', k)) = 1
                 /\ RowsOfKey(clicks, k) # {} => clicks' = clicks
                 /\ RowsOfKey(clicks, k) = {} =>
                       \E r \in clicks' :
                          /\ clicks' = clicks \cup {r}
                          /\ ClickDict(r) = ClickDict(loc[w])
                          /\ r.session_num = loc[w].session_num]_vars

\* C2 witness: a second save_click of a stored triple has returned; it came
\* with another tg_username, x_username and x_link, at a later second, and
\* the stored row still has the first call's values
C2_Witness ==
    /\ IsSaveOut(out) /\ out.status = 302
    /\ \E r \in clicks :
          /\ Key(r) = Key(out.row)
          /\ r.tg_username # out.row.tg_username
          /\ r.x_username # out.row.x_username
          /\ r.x_link # out.row.x_link
          /\ TextLess(r.clicked_at, out.row.clicked_at)

\* the precedence of target_url: the target parameter, else the url of the
\* link metadata, else the fallback; a text counts as empty when nothing
\* but blanks is in it, and is used with the blanks around it removed
PrecedenceTargetUrl(args, link_info) ==
    IF "target" \in DOMAIN args /\ Strip(args["target"]) # ""
    THEN Strip(args["target"])
    ELSE IF "url" \in DOMAIN link_info /\ Strip(link_info["url"]) # ""
    THEN Strip(link_info["url"])
    ELSE "https://x.com"

\* the link metadata a well-formed request's post_num selects
LinkOf(args) == LinkInfo(session_links_ref, ArgInt(args, "post").val)

\* link metadata exists for the request's post_num and names its uid as poster
PosterVisits(args) ==
    /\ WellFormed(args)
    /\ "poster_id" \in DOMAIN LinkOf(args)
    /\ LinkOf(args)["poster_id"] = ArgInt(args, "uid").val

\* C3: a /visit by the poster of the link (link metadata exists for post_num
\* and its poster_id equals uid) leaves the table unchanged and is answered
\* by a redirect to the target_url of the normal precedence
C3_SelfClickSuppressed ==
    [][(IsVisitOut(out') /\ PosterVisits(out'.args)) =>
          /\ clicks' = clicks
          /\ out'.status = 302
          /\ out'.location = PrecedenceTargetUrl(out'.args, LinkOf(out'.args))
      ]_vars

\* C3 witness: a self-click was answered while rows were stored, none of
\* them for the poster
C3_Witness ==
    /\ IsVisitOut(out) /\ PosterVisits(out.args)
    /\ out.status = 302
    /\ out.location = "https://x.com/dave"
    /\ clicks # {}
    /\ \A r \in clicks : r.tg_id # ArgInt(out.args, "uid").val

\* the request omits uid, or its uid is no number
UidMissingOrNonNumeric(args) ==
    "uid" \notin DOMAIN args \/ ~ParseInt(args["uid"]).ok

\* C4 (as claimed): a /visit whose uid is omitted or non-numeric is answered
\* with 400 and never reaches save_click; fails on the code, which reads an
\* omitted uid as 0 and records the click under tg_id 0
C4_MissingUidRejected ==
    (IsVisitOut(out) /\ UidMissingOrNonNumeric(out.args)) =>
       /\ out.status = 400
       /\ out.row = NoRow
       /\ \A r \in clicks : r.tg_id # 0

\* C5 (as claimed): every well-formed /visit ends in a redirect to its
\* resolved target_url, also when the write of save_click fails; fails on
\* the code, where the exception of save_click ends the request in a 500
C5_RedirectDespiteStorageFailure ==
    (IsVisitOut(out) /\ WellFormed(out.args)) =>
       /\ out.status = 302
       /\ out.location = PrecedenceTargetUrl(out.args, LinkOf(out.args))

\* C6: a purge of session s that is carried out (its DELETE is not refused
\* by a locked database) removes exactly the rows of s: no row of s is
\* left, every row of another session is left as it was, nothing is added;
\* when s has no rows the table is unchanged, and a second purge of s
\* changes nothing more
C6_PurgeScope ==
    [][IsClearOut(out') =>
          LET s == out'.body.session
          IN  /\ \A r \in clicks' : r.session_num # s
              /\ \A r \in clicks : r.session_num # s => r \in clicks'
              /\ clicks' \subseteq clicks
              /\ (\A r \in clicks : r.session_num # s) => clicks' = clicks
              /\ DeleteBySession(clicks', s) = clicks'
              /\ out'.body.ok = TRUE
      ]_vars

\* C6 witness: a purge has been answered, the row stored first (id 1) is
\* gone and a row of another session than the purged one stays stored
C6_Witness ==
    /\ IsClearOut(out)
    /\ \E r \in clicks : r.session_num # out.body.session
    /\ nextId > 1
    /\ \A r \in clicks : r.id # 1
    /\ \A w \in Workers : pc[w] = "idle"

\* the dicts of the rows stored under session s
C9_RowsOfSession(s) == {ClickDict(r) : r \in {x \in clicks : x.session_num = s}}

\* C9: GET /api/clicks/s, when its SELECT is carried out (not refused by a
\* locked database), answers with exactly the rows stored under
\* session_num = s (each once, none of another session, the empty list when
\* there are none), ascending by clicked_at, and changes nothing in the
\* table; GET /health changes nothing either
C9_ListBySession ==
    [][/\ IsClicksOut(out') =>
            LET L == out'.clicks
                s == out'.session
            IN  /\ clicks' = clicks
                /\ {L[i] : i \in 1..Len(L)} = C9_RowsOfSession(s)
                /\ Len(L) = Cardinality({r \in clicks : r.session_num = s})
                /\ \A i, j \in 1..Len(L) :
                      i < j => ~TextLess(L[j].clicked_at, L[i].clicked_at)
       /\ out'.op = "clicks" => clicks' = clicks
       /\ out'.op = "health" =>
            /\ clicks' = clicks /\ nextId' = nextId
            /\ out'.body = [status |-> "ok"]
      ]_vars

\* C9 witness: the answer lists two rows of the session with different
\* timestamps, the one inserted later (larger id) first, while a row of
\* another session is stored
C9_Witness ==
    /\ IsClicksOut(out)
    /\ Len(out.clicks) >= 2
    /\ TextLess(out.clicks[1].clicked_at, out.clicks[2].clicked_at)
    /\ \E r1, r2 \in clicks :
          /\ ClickDict(r1) = out.clicks[1]
          /\ ClickDict(r2) = out.clicks[2]
          /\ r1.id > r2.id
    /\ \E r \in clicks : r.session_num # out.session

\* the precedence of target_url read to the letter: a parameter or url that
\* is not the empty text is used as it is
LiteralTargetUrl(args, link_info) ==
    IF "target" \in DOMAIN args /\ args["target"] # ""
    THEN args["target"]
    ELSE IF "url" \in DOMAIN link_info /\ link_info["url"] # ""
    THEN link_info["url"]
    ELSE "https://x.com"

\* C7 (as claimed): the redirect destination is the target parameter if
\* that is non-empty, else the non-empty url of the link metadata, else the
\* fallback; fails on the code for a target (or url) with blanks around it
\* or of blanks only, which the code strips before it tests and uses it
C7_TargetUrlAsClaimed ==
    (IsVisitOut(out) /\ out.status = 302) =>
       out.location = LiteralTargetUrl(out.args, LinkOf(out.args))

\* C7 (amended): the resolved target_url is the target parameter with the
\* whitespace around it stripped, if that is non-empty; otherwise the url of
\* the link metadata of post_num, stripped likewise, if non-empty; otherwise
\* the fallback URL; the redirect destination and the x_link passed to
\* save_click and stored are that text, and it is never empty
C7_TargetUrlPrecedence ==
    /\ (IsVisitOut(out) /\ out.status = 302) =>
          /\ out.location = PrecedenceTargetUrl(out.args, LinkOf(out.args))
          /\ out.location # ""
    /\ IsSaveOut(out) =>
          out.row.x_link = PrecedenceTargetUrl(out.args, LinkOf(out.args))
    /\ \A w \in Workers :
          pc[w] = "save" =>
             loc[w].x_link = PrecedenceTargetUrl(req[w], LinkOf(req[w]))
    /\ \A r \in clicks : r.x_link # ""

\* C7 witness: a visit whose target parameter holds one blank was stored
\* and redirected with the url of the link metadata of its post
C7_Witness ==
    /\ IsSaveOut(out) /\ out.status = 302
    /\ "target" \in DOMAIN out.args /\ out.args["target"] = " "
    /\ out.location = "https://x.com/dave"
    /\ \E r \in clicks : r.x_link = "https://x.com/dave"

\* exactly one "@" at the front of x
OneLeadingAt(x) ==
    /\ Len(x) >= 1
    /\ Ch(x, 1) = "@"
    /\ Len(x) >= 2 => Ch(x, 2) # "@"

\* C8: every stored x_username, and every x_username passed to save_click,
\* is "Unknown" or begins with exactly one "@", whether it came from the
\* xuser parameter, from the link metadata or from the URL
C8_HandleNormalized ==
    /\ \A r \in clicks : r.x_username = "Unknown" \/ OneLeadingAt(r.x_username)
    /\ \A w \in Workers :
          pc[w] = "save" =>
             loc[w].x_username = "Unknown" \/ OneLeadingAt(loc[w].x_username)

\* C8 witness: a stored handle derived from a URL whose first path segment
\* begins with two "@"
C8_WitnessUrl ==
    \E r \in clicks :
       /\ "xuser" \notin DOMAIN out.args
       /\ r.x_link = "https://X.com/@@bob/s"
       /\ r.x_username = "@bob"

\* the same for a handle from the xuser parameter
C8_WitnessXuser ==
    \E r \in clicks :
       /\ "xuser" \in DOMAIN out.args /\ out.args["xuser"] = " @@carol"
       /\ r.x_username = "@carol"

\* the same for a handle from the link metadata
C8_WitnessLink ==
    \E r \in clicks :
       /\ "xuser" \notin DOMAIN out.args
       /\ Get(LinkOf(out.args), "x_username", "") = " @@eve "
       /\ r.x_username = "@eve"

\* the precedence of tg_username read to the letter: a uname that is not
\* the empty text is used as it is
LiteralTgUsername(args, cache) ==
    LET uid == ArgInt(args, "uid").val
    IN  IF "uname" \in DOMAIN args /\ args["uname"] # "" THEN args["uname"]
        ELSE IF uid \in DOMAIN cache
        THEN IF "username" \in DOMAIN cache[uid] /\ cache[uid]["username"] # ""
             THEN "@" \o cache[uid]["username"]
             ELSE cache[uid]["full_name"]
        ELSE "User " \o IntToStr(uid)

\* the same with the whitespace around uname stripped before it is tested
\* and used
PrecedenceTgUsername(args, cache) ==
    LET uid == ArgInt(args, "uid").val
    IN  IF "uname" \in DOMAIN args /\ Strip(args["uname"]) # ""
        THEN Strip(args["uname"])
        ELSE IF uid \in DOMAIN cache
        THEN IF "username" \in DOMAIN cache[uid] /\ cache[uid]["username"] # ""
             THEN "@" \o cache[uid]["username"]
             ELSE cache[uid]["full_name"]
        ELSE "User " \o IntToStr(uid)

\* C10 (as claimed): the stored tg_username is the uname parameter if
\* non-empty, else the cached identity of uid, else "User <uid>"; fails on
\* the code for a uname with blanks around it or of blanks only
C10_TgUsernameAsClaimed ==
    \A r \in clicks :
       IsSaveOut(out) => r.tg_username = LiteralTgUsername(out.args, user_cache_ref)

\* C10 (amended): the stored tg_username is the uname parameter with the
\* whitespace around it stripped, if that is non-empty; otherwise, if the
\* visitor cache has an entry for uid, "@" + its username when it carries
\* one, else its full name; otherwise "User <uid>"
C10_TgUsernamePrecedence ==
    /\ \A r \in clicks :
          IsSaveOut(out) =>
             r.tg_username = PrecedenceTgUsername(out.args, user_cache_ref)
    /\ \A w \in Workers :
          pc[w] = "save" =>
             loc[w].tg_username = PrecedenceTgUsername(req[w], user_cache_ref)

\* C10 witness: a stored row whose uname parameter was padded with blanks
\* while the cache held a username for its uid
C10_Witness ==
    \E r \in clicks :
       /\ IsSaveOut(out) /\ out.status = 302
       /\ "uname" \in DOMAIN out.args /\ out.args["uname"] = " bob "
       /\ r.tg_id \in DOMAIN user_cache_ref
       /\ Get(user_cache_ref[r.tg_id], "username", "") # ""
       /\ r.tg_username = "bob"

\* s without the "@" it begins with
RECURSIVE LeadingAtStripped(_)
LeadingAtStripped(s) ==
    IF s # "" /\ Head(s) = "@" THEN LeadingAtStripped(Tail(s)) ELSE s

\* the precedence of the handle read to the letter: an xuser or x_username
\* is used without its leading "@" when what is left is not the empty text
LiteralXUsername(args, link_info, target_url) ==
    IF "xuser" \in DOMAIN args /\ LeadingAtStripped(args["xuser"]) # ""
    THEN LeadingAtStripped(args["xuser"])
    ELSE IF /\ "x_username" \in DOMAIN link_info
            /\ LeadingAtStripped(link_info["x_username"]) # ""
    THEN LeadingAtStripped(link_info["x_username"])
    ELSE extract_x_username(target_url)

\* the same with every "@" removed and the whitespace around the rest
\* stripped before the text is tested and used
PrecedenceXUsername(args, link_info, target_url) ==
    IF "xuser" \in DOMAIN args /\ Strip(RemoveAt(args["xuser"])) # ""
    THEN Strip(RemoveAt(args["xuser"]))
    ELSE IF /\ "x_username" \in DOMAIN link_info
            /\ Strip(RemoveAt(link_info["x_username"])) # ""
    THEN Strip(RemoveAt(link_info["x_username"]))
    ELSE extract_x_username(target_url)

\* the x_username stored for a handle
HandleStored(h) == IF h = "Unknown" THEN "Unknown" ELSE "@" \o h

\* C11 (as claimed): the handle of a persisted visit is the xuser parameter
\* without its leading "@" if that is non-empty, else the x_username of the
\* link metadata without its leading "@" if non-empty, else the one derived
\* from target_url; fails on the code, which removes every "@" and the
\* blanks around the rest (xuser "a@b" is stored as "@ab")
C11_XUsernameAsClaimed ==
    \A r \in clicks :
       IsSaveOut(out) =>
          r.x_username =
             HandleStored(LiteralXUsername(out.args, LinkOf(out.args),
                                           out.row.x_link))

\* C11 (amended): the handle of a persisted visit is the xuser parameter
\* with every "@" removed and the whitespace around the rest stripped, if
\* that is non-empty; otherwise the x_username of the link metadata of
\* post_num, treated likewise, if non-empty; otherwise it is derived from
\* the resolved target_url
C11_XUsernamePrecedence ==
    /\ \A r \in clicks :
          IsSaveOut(out) =>
             r.x_username =
                HandleStored(PrecedenceXUsername(out.args, LinkOf(out.args),
                                                 out.row.x_link))
    /\ \A w \in Workers :
          pc[w] = "save" =>
             loc[w].x_username =
                HandleStored(PrecedenceXUsername(req[w], LinkOf(req[w]),
                                                 loc[w].x_link))

\* C11 witness: a stored visit whose xuser had an "@" inside, for a post
\* whose link metadata names another handle and with a target on x.com
C11_Witness ==
    \E r \in clicks :
       /\ IsSaveOut(out) /\ out.status = 302
       /\ "xuser" \in DOMAIN out.args /\ out.args["xuser"] = "a@b"
       /\ Get(LinkOf(out.args), "x_username", "") = "@dave"
       /\ r.x_link = "https://x.com/alice"
       /\ r.x_username = "@ab"

\* C11 witness of the second rank: no xuser, the handle of the link
\* metadata wins over the one of the target URL
C11_WitnessLink ==
    \E r \in clicks :
       /\ IsSaveOut(out) /\ out.status = 302
       /\ "xuser" \in DOMAIN out.args /\ out.args["xuser"] = "@"
       /\ r.x_link = "https://x.com/alice"
       /\ r.x_username = "@dave"

\* the row a well-formed request resolves to when neither map has an entry:
\* its own parameters where it gives them, the fallbacks elsewhere
C12_FallbackRow(args, t) ==
    LET target_url == PrecedenceTargetUrl(args, <<>>)
    IN  [session_num |-> ArgInt(args, "sess").val,
         post_num    |-> ArgInt(args, "post").val,
         tg_id       |-> ArgInt(args, "uid").val,
         tg_username |-> PrecedenceTgUsername(args, <<>>),
         x_username  |-> HandleStored(PrecedenceXUsername(args, <<>>,
                                                          target_url)),
         x_link      |-> target_url,
         clicked_at  |-> Strftime(t)]

\* the request of the scenario
C12_Scenario ==
    [uid |-> "555", post |-> "3", sess |-> "1", target |-> "https://x.com/alice"]

\* C12: with the link map and the visitor cache both empty, a well-formed
\* /visit is neither rejected nor suppressed, it reaches the INSERT with the
\* row built from its parameters and the fallbacks, and once the INSERT is
\* done on the table that lacked the triple exactly that one row is stored
\* and the answer redirects to its x_link; uid=555, post=3, sess=1,
\* target=https://x.com/alice stores "User 555", "@alice" and that URL
C12_RecordedWithoutSideChannels ==
    (session_links_ref = <<>> /\ user_cache_ref = <<>>) =>
       /\ (IsVisitOut(out) /\ WellFormed(out.args)) => IsSaveOut(out)
       /\ \A w \in Workers :
             pc[w] = "save" => loc[w] = C12_FallbackRow(req[w], now)
       /\ (IsSaveOut(out) /\ out.status = 302) =>
             /\ Cardinality(clicks) = 1
             /\ \A r \in clicks :
                   [f \in DOMAIN r \ {"id"} |-> r[f]] =
                      C12_FallbackRow(out.args, now)
             /\ out.location = C12_FallbackRow(out.args, now).x_link
       /\ (IsSaveOut(out) /\ out.status = 302 /\ out.args = C12_Scenario) =>
             /\ out.location = "https://x.com/alice"
             /\ \A r \in clicks :
                   /\ Key(r) = <<1, 3, 555>>
                   /\ r.tg_username = "User 555"
                   /\ r.x_username = "@alice"
                   /\ r.x_link = "https://x.com/alice"

\* C12 witness: the scenario, recorded and redirected with both maps empty
C12_Witness ==
    /\ session_links_ref = <<>> /\ user_cache_ref = <<>>
    /\ IsSaveOut(out) /\ out.status = 302 /\ out.args = C12_Scenario
    /\ \E r \in clicks : r.tg_username = "User 555" /\ r.x_username = "@alice"

\* the number of rows a step removes from the table
C13_Deleted == Cardinality(clicks \ clicks')

\* C13 (as claimed): the answer of a purge that was carried out carries the
\* number of rows it deleted, N for a session of N rows and 0 for one
\* without rows; fails on the code, whose answer has the fields ok and
\* session and no other
C13_PurgeReturnsCount ==
    [][IsClearOut(out') =>
          \E f \in DOMAIN out'.body \ {"ok", "session"} :
             out'.body[f] = C13_Deleted
      ]_vars

\* C13 (amended): a purge of session s that is carried out answers
\* {"ok": true, "session": s} whether it deleted N rows or none, and the
\* answer carries no count; a purge refused by a locked database deletes
\* nothing and is answered 500
C13_PurgeResponse ==
    [][/\ out'.op = "clear" /\ out'.status # 200 =>
             clicks' = clicks /\ out'.status = 500
       /\ \A s \in Sessions :
          clear_session_clicks(s) =>
             /\ IsClearOut(out')
             /\ DOMAIN out'.body = {"ok", "session"}
             /\ out'.body.ok = TRUE
             /\ out'.body.session = s
             /\ C13_Deleted =
                   Cardinality({r \in clicks : r.session_num = s})
      ]_vars

\* C13 witness: rows were stored (id 1 and id 2 are used up), a purge of
\* session 1 has answered with ok and the session, and no row is left
C13_Witness ==
    /\ IsClearOut(out)
    /\ out.body = [ok |-> TRUE, session |-> 1]
    /\ clicks = {}
    /\ nextId = 3

\* C13 witness of the empty case: a purge of a session without rows, while
\* another session has one
C13_WitnessEmpty ==
    /\ IsClearOut(out)
    /\ out.body.session = 2
    /\ nextId = 2
    /\ Cardinality(clicks) = 1

\* C14: from one state to the next every stored row either stays in the
\* table, with the same id and every field (clicked_at included) as it was,
\* or the step is a purge of that row's session_num that was carried out;
\* no step of /visit,
\* /api/clicks, /health or of a purge of another session removes it, and no
\* step leaves a row of its id or of its triple with another content
C14_RowLifecycle ==
    [][/\ \A r \in clicks :
             \/ r \in clicks'
             \/ /\ IsClearOut(out')
                /\ out'.body.session = r.session_num
       /\ \A r \in clicks, r2 \in clicks' :
             (r2.id = r.id \/ Key(r2) = Key(r)) => r2 = r
      ]_vars

\* C14 witness: the row recorded first, at an earlier second, is still
\* stored as it was after a later INSERT and a purge of another session
C14_Witness ==
    /\ IsClearOut(out)
    /\ out.body.session = 2
    /\ nextId = 3
    /\ now > ClockStart
    /\ \E r \in clicks :
          /\ clicks = {r}
          /\ r.id = 1
          /\ r.session_num = 1
          /\ r.clicked_at = Strftime(ClockStart)

\* the host of url is x.com or one of its subdomains
C15_HostIsXCom(url) ==
    LET h == Lower(UrlParse(url).netloc)
    IN  \/ h = "x.com"
        \/ Len(h) > 6 /\ SubSeq(h, Len(h) - 5, Len(h)) = ".x.com"

\* neither the xuser parameter nor the link metadata supplies a handle
C15_HandleFromUrl(args) ==
    /\ Strip(RemoveAt(Get(args, "xuser", ""))) = ""
    /\ Strip(RemoveAt(Get(LinkOf(args), "x_username", ""))) = ""

\* C15: when neither xuser nor the link metadata supplies a handle, the
\* stored x_username is "@" and the first non-empty path segment of
\* target_url (without its "@") if the host of target_url is x.com, and it
\* is "Unknown" for every target_url whose host is another domain or whose
\* path has no non-empty segment
C15_UrlHandleOnlyForXCom ==
    \A r \in clicks :
       (IsSaveOut(out) /\ C15_HandleFromUrl(out.args)) =>
          LET path_parts == NonEmpty(Split(UrlParse(r.x_link).path))
          IN  IF C15_HostIsXCom(r.x_link) /\ path_parts # <<>>
              THEN r.x_username = "@" \o RemoveAt(path_parts[1])
              ELSE r.x_username = "Unknown"

\* the number parameter k stands for: its value, 0 when it is omitted
C16_Number(args, k) == IF k \in DOMAIN args THEN ParseInt(args[k]).val ELSE 0

\* a request with a numeric uid that omits post, sess or both, the one it
\* gives being numeric
C16_OmitsPostOrSess(args) ==
    /\ "uid" \in DOMAIN args /\ ParseInt(args["uid"]).ok
    /\ "post" \notin DOMAIN args \/ "sess" \notin DOMAIN args
    /\ "post" \in DOMAIN args => ParseInt(args["post"]).ok
    /\ "sess" \in DOMAIN args => ParseInt(args["sess"]).ok

\* the triple of such a request
C16_Key(args) ==
    <<C16_Number(args, "sess"), C16_Number(args, "post"),
      C16_Number(args, "uid")>>

\* the link metadata of its post, that of post 0 when post is omitted
C16_Link(args) == Get(session_links_ref, C16_Number(args, "post"), <<>>)

\* C16: a /visit with a numeric uid that omits post and/or sess is never
\* answered 400; the omitted number is 0: the row handed to the INSERT and
\* the row stored have the triple with post_num = 0 and/or session_num = 0,
\* and the link metadata consulted (for the URL, the handle and the
\* self-click test) is that of the post, post 0 when post is omitted
C16_OmittedNumbersAreZero ==
    /\ (IsVisitOut(out) /\ C16_OmitsPostOrSess(out.args)) =>
          LET args == out.args
              url  == PrecedenceTargetUrl(args, C16_Link(args))
          IN  /\ out.status # 400
              /\ IsSaveOut(out) =>
                    /\ Key(out.row) = C16_Key(args)
                    /\ out.row.x_link = url
                    /\ out.row.x_username =
                          HandleStored(PrecedenceXUsername(args, C16_Link(args),
                                                           url))
                    /\ Get(C16_Link(args), "poster_id", -1) # out.row.tg_id
                    /\ \A r \in clicks : Key(r) = C16_Key(args)
                    /\ out.status = 302 => clicks # {}
              /\ ~IsSaveOut(out) =>
                    /\ Get(C16_Link(args), "poster_id", -1) =
                          C16_Number(args, "uid")
                    /\ out.location = url
    /\ \A w \in Workers :
          (pc[w] = "save" /\ C16_OmitsPostOrSess(req[w])) =>
             /\ Key(loc[w]) = C16_Key(req[w])
             /\ loc[w].x_link = PrecedenceTargetUrl(req[w], C16_Link(req[w]))

\* C16 witness: a visit without post and without target is stored under
\* post_num 0 with the URL and the handle of the link metadata of post 0
C16_Witness ==
    \E r \in clicks :
       /\ IsSaveOut(out) /\ out.status = 302
       /\ DOMAIN out.args = {"uid", "sess"}
       /\ Key(r) = <<1, 0, 555>>
       /\ r.x_link = "https://e.org/z"
       /\ r.x_username = "@eve"

\* C16 witness of the self-click test: a visit without post and sess by the
\* poster of post 0 is redirected and not stored
C16_WitnessPoster ==
    /\ IsVisitOut(out) /\ ~IsSaveOut(out) /\ out.status = 302
    /\ DOMAIN out.args = {"uid"}
    /\ out.location = "https://e.org/z"
    /\ clicks = {}

\* the (sess, post, uid) of a request
C17_Key(args) ==
    <<C16_Number(args, "sess"), C16_Number(args, "post"),
      C16_Number(args, "uid")>>

\* C17: the step in which a /visit answers adds at most one row to the
\* table, that row has the (sess, post, uid) of the request as its triple,
\* and every row stored before is still there as it was; a /visit answered
\* 400 or redirected as a self-click adds nothing, and nothing is written
\* in the part of a /visit before its INSERT
C17_VisitFrame ==
    [][/\ IsVisitOut(out') =>
             /\ clicks \subseteq clicks'
             /\ Cardinality(clicks' \ clicks) <= 1
             /\ \A r \in clicks' \ clicks :
                   /\ Key(r) = C17_Key(out'.args)
                   /\ \A r0 \in clicks : r0.id # r.id
             /\ (out'.status = 400 \/ ~IsSaveOut(out')) => clicks' = clicks
       /\ \A w \in Workers :
             (pc[w] = "idle" /\ pc'[w] = "save") => clicks' = clicks
      ]_vars

\* C17 witness: a visit has just added the row of its triple as the second
\* row of the table, the first row being of another triple
C17_Witness ==
    /\ IsSaveOut(out) /\ out.status = 302
    /\ \E r1, r2 \in clicks :
          /\ r1.id = 1 /\ r2.id = 2 /\ nextId = 3
          /\ Key(r2) = C17_Key(out.args)
          /\ Key(r1) # Key(r2)
          /\ ClickDict(r2) = ClickDict(out.row)

\* C17 witness of the suppressed visit: the poster's visit is redirected
\* while a row of another visitor is stored
C17_WitnessSuppressed ==
    /\ IsVisitOut(out) /\ ~IsSaveOut(out) /\ out.status = 302
    /\ PosterVisits(out.args)
    /\ clicks # {}

\* the row a visit resolves to, from its parameters, the two maps and the
\* second t of its INSERT
C18_Resolved(args, t) ==
    LET link_info  == LinkOf(args)
        target_url == PrecedenceTargetUrl(args, link_info)
    IN  [post_num    |-> C16_Number(args, "post"),
         tg_id       |-> C16_Number(args, "uid"),
         tg_username |-> PrecedenceTgUsername(args, user_cache_ref),
         x_username  |-> HandleStored(PrecedenceXUsername(args, link_info,
                                                          target_url)),
         x_link      |-> target_url,
         clicked_at  |-> Strftime(t)]

\* C18: a purge of session s leaves no row of s, and the INSERT of the
\* next visit of the triple recorded before (the table is empty again, rows
\* were stored before) adds a new row, under a new id, with the resolved
\* values of this visit and the timestamp of this visit, not later than the
\* clock
C18_PurgeResetsDedup ==
    [][/\ IsClearOut(out') =>
             \A r \in clicks' : r.session_num # out'.body.session
       /\ \A w \in Workers :
             (/\ nextId > 1 /\ clicks = {}
              /\ pc[w] = "save" /\ pc'[w] = "idle" /\ out'.status = 302) =>
                \E r \in clicks' :
                   /\ clicks' = {r}
                   /\ r.id = nextId
                   /\ Key(r) = <<1, 3, 555>>
                   /\ \E t \in ClockStart .. now :
                         ClickDict(r) = C18_Resolved(out'.args, t)
      ]_vars

\* C18 witness: the triple (1, 3, 555), recorded and purged before, is
\* stored again as row 2, with the values and the later second of the
\* visit that has just returned
C18_Witness ==
    /\ IsSaveOut(out) /\ out.status = 302
    /\ "uname" \in DOMAIN out.args
    /\ \E r \in clicks :
          /\ clicks = {r}
          /\ r.id = 2
          /\ Key(r) = <<1, 3, 555>>
          /\ r.tg_username = "bob"
          /\ r.x_username = "@carol"
          /\ r.clicked_at = Strftime(ClockStart + 1)

\* the visit that has just been answered with a redirect, if any
C19_Answered ==
    IF IsVisitOut(out) /\ out.status = 302
    THEN {[args |-> out.args, dest |-> out.location]}
    ELSE {}

\* the visits about to do their INSERT, with the URL they redirect to
C19_InFlight ==
    {[args |-> req[w], dest |-> loc[w].x_link] :
        w \in {v \in Workers : pc[v] = "save"}}

\* two requests with the same target parameter (both without, or both with
\* the same text) and the same link metadata for their post_num
C19_SameInputs(a, b) ==
    /\ "target" \in DOMAIN a <=> "target" \in DOMAIN b
    /\ "target" \in DOMAIN a => a["target"] = b["target"]
    /\ LinkOf(a) = LinkOf(b)

\* C19: any two well-formed visits with the same target parameter and the
\* same link metadata for their post_num are redirected to the same URL,
\* whichever of them was recorded, was a duplicate or was suppressed as a
\* self-click, whatever rows are stored and whatever their uid, uname and
\* xuser are
C19_RedirectDeterminism ==
    \A a, b \in C19_Answered \cup C19_InFlight :
       C19_SameInputs(a.args, b.args) => a.dest = b.dest

\* C19 witness: the poster's suppressed visit has been redirected to the
\* URL that a visit of another uid, with uname and xuser, for the same post
\* and a stored triple is about to be redirected to
C19_Witness ==
    /\ IsVisitOut(out) /\ ~IsSaveOut(out) /\ out.status = 302
    /\ \E w \in Workers :
          /\ pc[w] = "save"
          /\ C19_SameInputs(req[w], out.args)
          /\ "xuser" \in DOMAIN req[w] /\ "uname" \in DOMAIN req[w]
          /\ ArgInt(req[w], "uid").val # ArgInt(out.args, "uid").val
          /\ loc[w].x_link = out.location
          /\ RowsOfKey(clicks, Key(loc[w])) # {}

====
